---- MODULE Spec2Model ----
(***************************************************************************)
(* A model of the evaluation engine of package optim (src/unnamed/part_000):*)
(* Point, hashPoint, the Objectiver capability, SerialEvaler, CacheEvaler,  *)
(* ParallelEvaler and ObjectivePenalty, and of the projection solver of     *)
(* package mesh (src/mesh/project.go): OrthoProj, Nearest, mostviolated.    *)
(*                                                                          *)
(* The specifications share the module's variables:                         *)
(*   SpecSerial    one call of SerialEvaler.Eval on a drawn batch;          *)
(*   SpecCache     any sequence of CacheEvaler.Eval calls on one cache,     *)
(*                 the inner evaluator being a SerialEvaler;                *)
(*   SpecParallel  one call of ParallelEvaler.Eval, one process per         *)
(*                 goroutine, interleaved statement by statement;           *)
(*   SpecCacheAny  CacheEvaler.Eval calls around any inner Evaler;          *)
(*   SpecNearest   calls of mesh.Nearest, one loop iteration per step;      *)
(*   SpecPenalty   calls of ObjectivePenalty.Objective.                     *)
(***************************************************************************)
EXTENDS Integers, Sequences, FiniteSets, TLC

VARIABLES
    obj,            \* the Objectiver handed to Eval
    ContinueOnErr,  \* SerialEvaler.ContinueOnErr
    spc,            \* SerialEvaler.Eval: "idle" | "ready" | "returned"
    sPoints,        \* SerialEvaler.Eval: the points argument
    sOut,           \* SerialEvaler.Eval: what the call returned
    cache,          \* CacheEvaler.cache: fingerprint -> value
    cpc,            \* CacheEvaler.Eval: "idle" | "ready" | "returned" | "panicked"
    cCall,          \* CacheEvaler.Eval: the last call (arguments, locals, results)
    cPrev,          \* history: cache, seen and evald when the last call began
    seen,           \* history: positions the inner evaluator returned in earlier calls
    evald,          \* history: positions the objective was invoked on in earlier calls
    pPoints,        \* ParallelEvaler.Eval: the points argument
    mainpc,         \* ParallelEvaler.Eval: "idle" | "loop" | "range" | "wait" | "returned"
    li,             \* ParallelEvaler.Eval: iterations of the spawning loop begun
    loopP,          \* ParallelEvaler.Eval: p, the one variable of the spawning loop
    tasks,          \* the goroutines: position, perr, and the position evaluated
    ch,             \* the buffered channel ch
    results,        \* ParallelEvaler.Eval: results
    err,            \* ParallelEvaler.Eval: err
    wg,             \* the WaitGroup's counter
    pOut,           \* ParallelEvaler.Eval: what the call returned
    near,           \* mesh.Nearest: the arguments and locals of the call
    pen             \* ObjectivePenalty: its fields and the last two calls

serialVars == <<ContinueOnErr, spc, sPoints, sOut>>
cacheVars  == <<cache, cpc, cCall, cPrev, seen, evald>>
parVars    == <<pPoints, mainpc, li, loopP, tasks, ch, results, err, wg, pOut>>
nearVars   == <<near>>
penVars    == <<pen>>

(***************************************************************************)
(* Bounds.                                                                 *)
(***************************************************************************)
\* The longest batch handed to SerialEvaler.Eval and CacheEvaler.Eval.
MaxBatch == 3
\* The longest batch handed to ParallelEvaler.Eval: the number of goroutines.
MaxTasks == 3

(***************************************************************************)
(* float64 values.  A float64 is kept as its IEEE-754 fields: the sign bit, *)
(* the 11 exponent bits and the upper 20 of the 52 fraction bits (the lower *)
(* 32 fraction bits are zero in every value used here).                     *)
(***************************************************************************)
PosZero == [sign |-> 0, exp |-> 0, frac |-> 0]          \* +0.0
NegZero == [sign |-> 1, exp |-> 0, frac |-> 0]          \* -0.0
One     == [sign |-> 0, exp |-> 1023, frac |-> 0]       \* 1.0
OneHalf == [sign |-> 0, exp |-> 1023, frac |-> 524288]  \* 1.5

\* math.Float64bits followed by binary.BigEndian.PutUint64: the eight bytes
\* of the bit pattern, most significant first.
Float64bits(x) ==
    << x.sign * 128 + (x.exp \div 16),
       (x.exp % 16) * 16 + (x.frac \div 65536),
       (x.frac \div 256) % 256,
       x.frac % 256,
       0, 0, 0, 0 >>

\* Point.Pos(): a copy of the coordinates.
Pos(p) == p.pos

RECURSIVE hashData(_, _)
\* The data buffer hashPoint fills: coordinate i at bytes 8i .. 8i+7.
hashData(p, i) ==
    IF i > Len(p.pos) THEN <<>>
    ELSE Float64bits(p.pos[i]) \o hashData(p, i + 1)

\* hashPoint: sha1.Sum of the buffer.  SHA-1 is taken to be collision free:
\* a digest is represented by the buffer it was computed from.
hashPoint(p) == hashData(p, 1)

\* NewPoint(pos, val)
NewPoint(pos, val) == [pos |-> pos, Val |-> val]

(***************************************************************************)
(* The inputs: positions of dimension 2, the values callers pass in, and    *)
(* the objectives.                                                          *)
(***************************************************************************)
Positions == { <<PosZero, One>>, <<NegZero, One>>, <<One, OneHalf>> }

CallerVals == {0}

Points == { NewPoint(v, x) : v \in Positions, x \in CallerVals }

RECURSIVE SeqsUpTo(_, _)
SeqsUpTo(S, k) ==
    IF k = 0 THEN { <<>> }
    ELSE LET shorter == SeqsUpTo(S, k - 1)
         IN  shorter \cup { Append(s, e) : s \in { t \in shorter : Len(t) = k - 1 }, e \in S }

Batches == SeqsUpTo(Points, MaxBatch)

\* The value functions of the objectives: one gives every position its own
\* non-zero value, one gives every position the value callers pass in.
Valuations ==
    { [v \in Positions |->
          IF v = <<PosZero, One>> THEN 1 ELSE IF v = <<NegZero, One>> THEN 2 ELSE 3],
      [v \in Positions |-> 0] }

\* An objective: its value at each position and the positions it fails at.
Objectives == [val : Valuations, fails : SUBSET Positions]

\* error values: nil, or the error the objective reports at a position.
Nil == <<>>
ErrAt(v) == <<v>>

\* Objectiver.Objective(v): the value and the error.
Objective(o, v) ==
    [Val |-> o.val[v], Err |-> IF v \in o.fails THEN ErrAt(v) ELSE Nil]

(***************************************************************************)
(* SerialEvaler.Eval                                                        *)
(***************************************************************************)
\* The mutation of SerialStops that reads the flag inverted.
SerialStopsInverted(e, cont) == e # Nil /\ cont

\* `if err != nil && !ev.ContinueOnErr`
SerialStops(e, cont) == e # Nil /\ ~cont

\* `p.Val, err = obj.Objective(p.Pos()); results = append(results, p)`
SerialAppend(acc, p, r) == Append(acc, [p EXCEPT !.Val = r.Val])

\* The mutation of SerialCount that reports the size of the batch.
SerialCountBatch(points, acc) == Len(points)

\* `len(results)`, the count both return statements report.
SerialCount(points, acc) == Len(acc)

RECURSIVE SerialLoop(_, _, _, _, _, _)
\* The loop of SerialEvaler.Eval from point k on; acc are the results and
\* calls the positions passed to the objective so far, in order.
SerialLoop(o, cont, points, k, acc, calls) ==
    IF k > Len(points)
    THEN [results |-> acc, n |-> SerialCount(points, acc), err |-> Nil,
          calls |-> calls]
    ELSE LET r    == Objective(o, Pos(points[k]))
             res  == SerialAppend(acc, points[k], r)
             cls  == Append(calls, Pos(points[k]))
         IN  IF SerialStops(r.Err, cont)
             THEN [results |-> res, n |-> SerialCount(points, res), err |-> r.Err,
                   calls |-> cls]
             ELSE SerialLoop(o, cont, points, k + 1, res, cls)

SerialEval(o, cont, points) == SerialLoop(o, cont, points, 1, <<>>, <<>>)

NoOut == [results |-> <<>>, n |-> 0, err |-> Nil, calls |-> <<>>]

SerialIdle ==
    /\ spc = "idle"
    /\ sPoints = <<>>
    /\ sOut = NoOut

\* A caller invokes SerialEvaler.Eval and it returns.
SerialCall ==
    /\ spc = "ready"
    /\ sOut' = SerialEval(obj, ContinueOnErr, sPoints)
    /\ spc' = "returned"
    /\ UNCHANGED <<obj, nearVars, penVars, ContinueOnErr, sPoints, cacheVars, parVars>>

(***************************************************************************)
(* CacheEvaler.Eval                                                         *)
(***************************************************************************)
\* `val, ok := ev.cache[hashPoint(p)]`: ok
CacheHas(c, p) == hashPoint(p) \in DOMAIN c

\* `p.Val = val` on a hit.  p is the range loop's copy of points[i], so the
\* assignment leaves the points slice as it was.
CacheHitAssign(points, i, val) == points

RECURSIVE CacheScan(_, _, _, _)
\* The first loop: fromnew holds the (1-based) indices of the misses, in order.
CacheScan(c, points, i, fromnew) ==
    IF i > Len(points) THEN [points |-> points, fromnew |-> fromnew]
    ELSE IF CacheHas(c, points[i])
         THEN CacheScan(c, CacheHitAssign(points, i, c[hashPoint(points[i])]), i + 1, fromnew)
         ELSE CacheScan(c, points, i + 1, Append(fromnew, i))

\* newp: the misses, in order.
CacheNewp(points, fromnew) == [j \in 1..Len(fromnew) |-> points[fromnew[j]]]

\* `ev.cache[k] = v`
CachePut(c, k, v) == [h \in DOMAIN c \cup {k} |-> IF h = k THEN v ELSE c[h]]

\* The mutation of CacheStore that records only the first new result.
RECURSIVE CacheStoreFirstOnly(_, _, _)
CacheStoreFirstOnly(c, newresults, i) ==
    IF i > Len(newresults) \/ i > 1 THEN c
    ELSE CacheStoreFirstOnly(CachePut(c, hashPoint(newresults[i]), newresults[i].Val),
                             newresults, i + 1)

RECURSIVE CacheStore(_, _, _)
\* `for _, p := range newresults { ev.cache[hashPoint(p)] = p.Val }`
CacheStore(c, newresults, i) ==
    IF i > Len(newresults) THEN c
    ELSE CacheStore(CachePut(c, hashPoint(newresults[i]), newresults[i].Val),
                    newresults, i + 1)

\* `for i, p := range newresults { points[fromnew[i]].Val = p.Val }`; indexing
\* fromnew past its end panics.
CacheBackfillPanics(fromnew, newresults) == Len(newresults) > Len(fromnew)

CacheBackfill(points, fromnew, newresults) ==
    [k \in 1..Len(points) |->
        IF \E j \in 1..Len(newresults) : j <= Len(fromnew) /\ fromnew[j] = k
        THEN LET j == CHOOSE j \in 1..Len(newresults) : j <= Len(fromnew) /\ fromnew[j] = k
             IN  [points[k] EXCEPT !.Val = newresults[j].Val]
        ELSE points[k]]

\* `points[:fromnew[len(newresults)-1]+1]` panics when len(newresults) is 0.
CacheShrinkPanics(fromnew, newresults) ==
    Len(fromnew) > 0 /\ (Len(newresults) = 0 \/ Len(newresults) > Len(fromnew))

\* The mutation of CacheShrink that cuts one point short.
CacheShrinkShort(points, fromnew, newresults) ==
    IF Len(fromnew) > 0
    THEN SubSeq(points, 1, fromnew[Len(newresults)] - 1)
    ELSE points

\* `if len(fromnew) > 0 { points = points[:fromnew[len(newresults)-1]+1] }`
\* With 1-based indices the cut is fromnew[len(newresults)] points long.
CacheShrink(points, fromnew, newresults) ==
    IF Len(fromnew) > 0
    THEN SubSeq(points, 1, fromnew[Len(newresults)])
    ELSE points

\* CacheEvaler.Eval after the inner evaluator returned inner.
CacheFinish(c, scan, inner) ==
    LET panics == \/ CacheBackfillPanics(scan.fromnew, inner.results)
                  \/ CacheShrinkPanics(scan.fromnew, inner.results)
    IN  [cache    |-> CacheStore(c, inner.results, 1),
         panicked |-> panics,
         results  |-> IF panics THEN <<>>
                      ELSE CacheShrink(CacheBackfill(scan.points, scan.fromnew, inner.results),
                                       scan.fromnew, inner.results),
         n        |-> inner.n,
         err      |-> inner.err]

\* CacheEvaler.Eval whose inner evaluator is SerialEvaler{cont}.
CacheEval(c, o, cont, points) ==
    LET scan  == CacheScan(c, points, 1, <<>>)
        newp  == CacheNewp(scan.points, scan.fromnew)
        inner == SerialEval(o, cont, newp)
        fin   == CacheFinish(c, scan, inner)
    IN  [points |-> points, fromnew |-> scan.fromnew, newp |-> newp,
         newresults |-> inner.results, calls |-> inner.calls,
         cache |-> fin.cache, panicked |-> fin.panicked,
         results |-> fin.results, n |-> fin.n, err |-> fin.err]

PosOf(s) == { s[i].pos : i \in 1..Len(s) }
Range(s) == { s[i] : i \in 1..Len(s) }

NoCall ==
    [points |-> <<>>, fromnew |-> <<>>, newp |-> <<>>, newresults |-> <<>>,
     calls |-> <<>>, cache |-> <<>>, panicked |-> FALSE,
     results |-> <<>>, n |-> 0, err |-> Nil]

NoPrev == [cache |-> <<>>, seen |-> {}, evald |-> {}]

CacheIdle ==
    /\ cache = <<>>
    /\ cpc = "idle"
    /\ cCall = NoCall
    /\ cPrev = NoPrev
    /\ seen = {}
    /\ evald = {}

\* A caller invokes CacheEvaler.Eval on a batch and the call ends.
CacheCall ==
    /\ cpc \in {"ready", "returned"}
    /\ \E points \in Batches :
         cCall' = CacheEval(cache, obj, ContinueOnErr, points)
    /\ cPrev' = [cache |-> cache, seen |-> seen, evald |-> evald]
    /\ cache' = cCall'.cache
    /\ seen' = seen \cup PosOf(cCall'.newresults)
    /\ evald' = evald \cup Range(cCall'.calls)
    /\ cpc' = IF cCall'.panicked THEN "panicked" ELSE "returned"
    /\ UNCHANGED <<obj, nearVars, penVars, serialVars, parVars>>

\* An inner Evaler that stops after k points: it returns the points it
\* evaluated and no others, as the Evaler interface asks, with an error if
\* points were left unevaluated.
InnerEval(o, k, points) ==
    LET r == IF k < Len(points) THEN k ELSE Len(points)
    IN  [results |-> [j \in 1..r |->
                        [points[j] EXCEPT !.Val = Objective(o, Pos(points[j])).Val]],
         n       |-> r,
         err     |-> IF r < Len(points) THEN ErrAt(Pos(points[r + 1])) ELSE Nil,
         calls   |-> [j \in 1..r |-> Pos(points[j])]]

\* CacheEvaler.Eval whose inner evaluator is an Evaler that stops after k
\* points.
CacheEvalAny(c, o, k, points) ==
    LET scan  == CacheScan(c, points, 1, <<>>)
        newp  == CacheNewp(scan.points, scan.fromnew)
        inner == InnerEval(o, k, newp)
        fin   == CacheFinish(c, scan, inner)
    IN  [points |-> points, fromnew |-> scan.fromnew, newp |-> newp,
         newresults |-> inner.results, calls |-> inner.calls,
         cache |-> fin.cache, panicked |-> fin.panicked,
         results |-> fin.results, n |-> fin.n, err |-> fin.err]

\* A caller invokes Eval of a CacheEvaler that wraps such an Evaler; the
\* call returns or panics.
CacheCallAny ==
    /\ cpc \in {"ready", "returned"}
    /\ \E points \in Batches, k \in 0..MaxBatch :
         cCall' = CacheEvalAny(cache, obj, k, points)
    /\ cPrev' = [cache |-> cache, seen |-> seen, evald |-> evald]
    /\ cache' = cCall'.cache
    /\ seen' = seen \cup PosOf(cCall'.newresults)
    /\ evald' = evald \cup Range(cCall'.calls)
    /\ cpc' = IF cCall'.panicked THEN "panicked" ELSE "returned"
    /\ UNCHANGED <<obj, nearVars, penVars, serialVars, parVars>>

(***************************************************************************)
(* ParallelEvaler.Eval                                                      *)
(*                                                                          *)
(* The main goroutine runs the spawning loop and then `for p := range ch`.  *)
(* The loop `for _, p := range points` has ONE variable p for all of its    *)
(* iterations (the package has no go.mod: the language version predates the *)
(* per-iteration loop variables of Go 1.22), and the function literal of    *)
(* each `go` statement captures that variable by reference.  A goroutine's  *)
(* two reads of p race with the loop's next assignment to it; each read     *)
(* yields the value p holds at the moment the read is scheduled.            *)
(***************************************************************************)
\* The batches handed to ParallelEvaler.Eval, over two positions that differ
\* only in the sign of a zero.
ParPoints == { NewPoint(v, 0) : v \in { <<PosZero, One>>, <<NegZero, One>> } }

PosOf2(S) == { Pos(q) : q \in S }

ParBatches == SeqsUpTo(ParPoints, MaxTasks)

\* The objectives handed to ParallelEvaler.Eval: every failure set.
ParObjectives ==
    { o \in Objectives : o.val[<<PosZero, One>>] = 1 /\ o.fails \subseteq PosOf2(ParPoints) }

\* A goroutine that the loop has not started yet.
NoTask == [pc |-> "unborn", perr |-> [Point |-> NewPoint(<<>>, 0), Err |-> Nil], arg |-> <<>>]

\* `close(ch)`: no statement of the package closes the channel.
ChClosed == FALSE

\* `ch := make(chan errpoint, len(points))`: the capacity.
ChCap == Len(pPoints)

ParIdle ==
    /\ pPoints = <<>>
    /\ mainpc = "idle"
    /\ li = 0
    /\ loopP = NewPoint(<<>>, 0)
    /\ tasks = <<>>
    /\ ch = <<>>
    /\ results = <<>>
    /\ err = Nil
    /\ wg = 0
    /\ pOut = NoOut

\* One iteration of `for _, p := range points { go func() {...}() }`: p is
\* assigned points[li] and a goroutine is started.
ParSpawn ==
    /\ mainpc = "loop"
    /\ li < Len(pPoints)
    /\ li' = li + 1
    /\ loopP' = pPoints[li + 1]
    /\ tasks' = [tasks EXCEPT ![li + 1].pc = "start"]
    /\ UNCHANGED <<obj, nearVars, penVars, serialVars, cacheVars, pPoints, mainpc, ch, results, err, wg, pOut>>

\* The spawning loop ends and the main goroutine reaches `range ch`.
ParLoopEnd ==
    /\ mainpc = "loop"
    /\ li = Len(pPoints)
    /\ mainpc' = "range"
    /\ UNCHANGED <<obj, nearVars, penVars, serialVars, cacheVars, pPoints, li, loopP, tasks, ch, results, err, wg, pOut>>

\* `perr := errpoint{Point: p}`: the goroutine's first read of p.
TaskCopy(t) ==
    /\ tasks[t].pc = "start"
    /\ tasks' = [tasks EXCEPT ![t].pc = "copied", ![t].perr.Point = loopP]
    /\ UNCHANGED <<obj, nearVars, penVars, serialVars, cacheVars, pPoints, mainpc, li, loopP, ch, results, err, wg, pOut>>

\* `perr.Val, perr.Err = obj.Objective(p.Pos())`: the second read of p.
TaskEval(t) ==
    /\ tasks[t].pc = "copied"
    /\ LET r == Objective(obj, Pos(loopP))
       IN  tasks' = [tasks EXCEPT ![t].pc = "evald", ![t].arg = Pos(loopP),
                                  ![t].perr.Point.Val = r.Val, ![t].perr.Err = r.Err]
    /\ UNCHANGED <<obj, nearVars, penVars, serialVars, cacheVars, pPoints, mainpc, li, loopP, ch, results, err, wg, pOut>>

\* `ch <- perr`: blocks only while the buffer is full.
TaskSend(t) ==
    /\ tasks[t].pc = "evald"
    /\ Len(ch) < ChCap
    /\ ch' = Append(ch, tasks[t].perr)
    /\ tasks' = [tasks EXCEPT ![t].pc = "sent"]
    /\ UNCHANGED <<obj, nearVars, penVars, serialVars, cacheVars, pPoints, mainpc, li, loopP, results, err, wg, pOut>>

\* `wg.Done()`
TaskDone(t) ==
    /\ tasks[t].pc = "sent"
    /\ wg' = wg - 1
    /\ tasks' = [tasks EXCEPT ![t].pc = "done"]
    /\ UNCHANGED <<obj, nearVars, penVars, serialVars, cacheVars, pPoints, mainpc, li, loopP, ch, results, err, pOut>>

\* The mutation of ParCollectErr that keeps the last report's error.
ParCollectErrLast(e, perr) == perr.Err

\* `if p.Err != nil { err = p.Err }`
ParCollectErr(e, perr) == IF perr.Err # Nil THEN perr.Err ELSE e

\* The mutation of ParCollectResults that drops a failed report.
ParCollectResultsDropFailed(res, perr) ==
    IF perr.Err # Nil THEN res ELSE Append(res, perr.Point)

\* `results = append(results, p.Point)`
ParCollectResults(res, perr) == Append(res, perr.Point)

\* `len(results)`, the count the return statement reports.
ParCount(res) == Len(res)

\* `for p := range ch {...}; wg.Wait(); return results, len(results), err`.
\* A receive takes the oldest buffered report; the loop ends only when the
\* channel is closed and drained; wg.Wait returns when the counter is 0.
ParCollect ==
    /\ \/ /\ mainpc = "range"
          /\ ch # <<>>
          /\ err' = ParCollectErr(err, Head(ch))
          /\ results' = ParCollectResults(results, Head(ch))
          /\ ch' = Tail(ch)
          /\ UNCHANGED <<mainpc, pOut>>
       \/ /\ mainpc = "range"
          /\ ch = <<>>
          /\ ChClosed
          /\ mainpc' = "wait"
          /\ UNCHANGED <<ch, results, err, pOut>>
       \/ /\ mainpc = "wait"
          /\ wg = 0
          /\ mainpc' = "returned"
          /\ pOut' = [results |-> results, n |-> ParCount(results), err |-> err,
                      calls |-> <<>>]
          /\ UNCHANGED <<ch, results, err>>
    /\ UNCHANGED <<obj, nearVars, penVars, serialVars, cacheVars, pPoints, li, loopP, tasks, wg>>

(***************************************************************************)
(* float64 arithmetic of the projection solver.  The solver's numbers are   *)
(* kept as exact fractions [num, den] in lowest terms with den > 0; den = 0 *)
(* with num > 0 stands for +Inf, the quotient of a positive number by 0.    *)
(* Rounding is not modelled.                                                *)
(***************************************************************************)
Abs(k) == IF k < 0 THEN -k ELSE k

RECURSIVE Gcd(_, _)
Gcd(a, b) == IF b = 0 THEN a ELSE Gcd(b, a % b)

\* The fraction n/d, d # 0, in lowest terms.
Rat(n, d) ==
    LET g == Gcd(Abs(n), Abs(d))
        s == IF d < 0 THEN -1 ELSE 1
    IN  [num |-> s * (n \div g), den |-> s * (d \div g)]

RatInt(k) == [num |-> k, den |-> 1]

RatAdd(x, y) ==
    LET g == Gcd(x.den, y.den)
    IN  Rat(x.num * (y.den \div g) + y.num * (x.den \div g), (x.den \div g) * y.den)

RatNeg(x) == [num |-> -x.num, den |-> x.den]

RatSub(x, y) == RatAdd(x, RatNeg(y))

RatMul(x, y) ==
    LET g1 == Gcd(Abs(x.num), y.den)
        g2 == Gcd(Abs(y.num), x.den)
    IN  IF x.num = 0 \/ y.num = 0 THEN RatInt(0)
        ELSE [num |-> (x.num \div g1) * (y.num \div g2),
              den |-> (x.den \div g2) * (y.den \div g1)]

\* x / y for y # 0.
RatDiv(x, y) ==
    RatMul(x, IF y.num < 0 THEN [num |-> -y.den, den |-> -y.num]
                            ELSE [num |-> y.den, den |-> y.num])

\* x / y for x > 0 and y >= 0: +Inf when y is 0.
RatDivPos(x, y) == IF y.num = 0 THEN [num |-> 1, den |-> 0] ELSE RatDiv(x, y)

\* x > y, either of which may be +Inf (+Inf > +Inf is false).
RatGt(x, y) ==
    IF x.den = 0 THEN y.den # 0
    ELSE IF y.den = 0 THEN FALSE
    ELSE RatSub(x, y).num > 0

\* The denominator of eps.
EpsDen == 100000

\* `eps := 1e-5`
Eps == [num |-> 1, den |-> EpsDen]

RECURSIVE Dot(_, _, _)
\* One entry of a matrix product: the sum over j >= k of a[j] * x[j].
Dot(a, x, k) ==
    IF k > Len(a) THEN RatInt(0)
    ELSE RatAdd(RatMul(a[k], x[k]), Dot(a, x, k + 1))

\* math.Sqrt of a sum of squares that is a perfect square (every row of the
\* systems drawn below has an integer norm).
Sqrt(t) == CHOOSE r \in 0..t : r * r = t

\* l2norm(v), v a row of integers.
l2norm(v) == RatInt(Sqrt(Dot(v, v, 1).num))

(***************************************************************************)
(* A linear system is a sequence of rows [a |-> <<a1, a2>>, b |-> b]: row i *)
(* of A beside row i of b.                                                  *)
(***************************************************************************)
\* The mutation of mostviolated's comparison that uses the raw violation.
FartherRaw(diff, d, farthest) == RatGt(diff, farthest)

\* `if d > farthest`
Farther(diff, d, farthest) == RatGt(d, farthest)

\* The mutation of Violated that takes any positive difference.
ViolatedNoEps(diff) == RatGt(diff, RatInt(0))

\* `diff > eps`
Violated(diff) == RatGt(diff, Eps)

RECURSIVE mostviolatedLoop(_, _, _, _, _)
\* The loop of mostviolated from row i on; worstRow is 0 while no row has
\* been picked (-1 in the 0-based source).
mostviolatedLoop(x0, sys, i, farthest, worstRow) ==
    IF i > Len(sys) THEN worstRow
    ELSE LET diff == RatSub(Dot(sys[i].a, x0, 1), sys[i].b)
             d    == RatDivPos(diff, l2norm(sys[i].a))
         IN  IF Violated(diff) /\ Farther(diff, d, farthest)
             THEN mostviolatedLoop(x0, sys, i + 1, d, i)
             ELSE mostviolatedLoop(x0, sys, i + 1, farthest, worstRow)

\* A search that looks at the first row only.
mostviolatedFirstRow(x0, sys) ==
    mostviolatedLoop(x0, SubSeq(sys, 1, 1), 1, RatInt(0), 0)

\* mostviolated(x0, A, b): the index of the row returned, 0 for nil, nil.
mostviolated(x0, sys) == mostviolatedLoop(x0, sys, 1, RatInt(0), 0)

\* The entries of A^T A and A^T b of a system.
Gram(sys, j, k) ==
    LET col(c) == [i \in 1..Len(sys) |-> sys[i].a[c]]
    IN  Dot(col(j), col(k), 1)

GramB(sys, j) ==
    Dot([i \in 1..Len(sys) |-> sys[i].a[j]], [i \in 1..Len(sys) |-> sys[i].b], 1)

Det2(p, q, r, s) == RatSub(RatMul(p, s), RatMul(q, r))

\* The determinant of a 3 x 3 matrix, a sequence of rows.
Det3(M) ==
    RatAdd(RatSub(RatMul(M[1][1], Det2(M[2][2], M[2][3], M[3][2], M[3][3])),
                  RatMul(M[1][2], Det2(M[2][1], M[2][3], M[3][1], M[3][3]))),
           RatMul(M[1][3], Det2(M[2][1], M[2][2], M[3][1], M[3][2])))

\* M with column j replaced by h.
ReplaceCol(M, j, h) ==
    [i \in 1..Len(M) |-> [k \in 1..Len(M[i]) |-> IF k = j THEN h[i] ELSE M[i][k]]]

NoProj == <<RatInt(0), RatInt(0)>>

\* mat64.Solve(A, b) for m >= n = 2: the solution of the square system, the
\* least-squares solution of the overdetermined one, ErrSingular when A has
\* not full column rank.
Solve2(sys) ==
    IF Len(sys) = 2
    THEN LET det == Det2(sys[1].a[1], sys[1].a[2], sys[2].a[1], sys[2].a[2])
         IN  IF det.num = 0 THEN [err |-> TRUE, proj |-> NoProj]
             ELSE [err |-> FALSE,
                   proj |-> << RatDiv(Det2(sys[1].b, sys[1].a[2], sys[2].b, sys[2].a[2]), det),
                               RatDiv(Det2(sys[1].a[1], sys[1].b, sys[2].a[1], sys[2].b), det) >>]
    ELSE LET g11 == Gram(sys, 1, 1)
             g12 == Gram(sys, 1, 2)
             g22 == Gram(sys, 2, 2)
             h1  == GramB(sys, 1)
             h2  == GramB(sys, 2)
             det == Det2(g11, g12, g12, g22)
         IN  IF det.num = 0 THEN [err |-> TRUE, proj |-> NoProj]
             ELSE [err |-> FALSE,
                   proj |-> << RatDiv(Det2(h1, g12, h2, g22), det),
                               RatDiv(Det2(g11, h1, g12, h2), det) >>]

\* mat64.Solve(A, b) for m >= n = 3: the square system M x = h is A x = b
\* itself when m = 3 and the normal equations A^T A x = A^T b when m > 3.
Solve3(sys) ==
    LET M   == IF Len(sys) = 3 THEN [i \in 1..3 |-> sys[i].a]
               ELSE [j \in 1..3 |-> [k \in 1..3 |-> Gram(sys, j, k)]]
        h   == IF Len(sys) = 3 THEN [i \in 1..3 |-> sys[i].b]
               ELSE [j \in 1..3 |-> GramB(sys, j)]
        det == Det3(M)
    IN  IF det.num = 0 THEN [err |-> TRUE, proj |-> NoProj]
        ELSE [err |-> FALSE,
              proj |-> [j \in 1..3 |-> RatDiv(Det3(ReplaceCol(M, j, h)), det)]]

\* mat64.Solve(A, b) for a system of two or of three columns.
Solve(sys) == IF Len(sys[1].a) = 2 THEN Solve2(sys) ELSE Solve3(sys)

\* The `m < n` branch of OrthoProj for one row,
\*     [I - A^T (A A^T)^-1 A] x0 + A^T (A A^T)^-1 b
\* where A A^T is the 1 x 1 matrix a.a, whose mat64.Inverse is ErrSingular
\* when a.a = 0.
OrthoProj1(x0, sys) ==
    LET a   == sys[1].a
        aat == Dot(a, a, 1)
    IN  IF aat.num = 0 THEN [err |-> TRUE, proj |-> NoProj]
        ELSE LET t == RatDiv(RatSub(sys[1].b, Dot(a, x0, 1)), aat)
             IN  [err |-> FALSE,
                  proj |-> [j \in 1..Len(x0) |-> RatAdd(x0[j], RatMul(a[j], t))]]

\* The `m < n` branch for two rows: A A^T is 2 x 2, ErrSingular when its
\* determinant is 0; the result is x0 + A^T (A A^T)^-1 (b - A x0).
OrthoProj2(x0, sys) ==
    LET a1  == sys[1].a
        a2  == sys[2].a
        m11 == Dot(a1, a1, 1)
        m12 == Dot(a1, a2, 1)
        m22 == Dot(a2, a2, 1)
        det == Det2(m11, m12, m12, m22)
        r1  == RatSub(sys[1].b, Dot(a1, x0, 1))
        r2  == RatSub(sys[2].b, Dot(a2, x0, 1))
    IN  IF det.num = 0 THEN [err |-> TRUE, proj |-> NoProj]
        ELSE LET l1 == RatDiv(Det2(r1, m12, r2, m22), det)
                 l2 == RatDiv(Det2(m11, r1, m12, r2), det)
             IN  [err |-> FALSE,
                  proj |-> [j \in 1..Len(x0) |->
                              RatAdd(x0[j], RatAdd(RatMul(a1[j], l1), RatMul(a2[j], l2)))]]

\* OrthoProj(x0, A, b) for n = 2 or 3 columns.  With m >= n rows the result
\* is mat64.Solve(A, b); with m < n it is the projection of x0 onto the
\* intersection of the rows' hyperplanes.
OrthoProj(x0, sys) ==
    IF Len(sys) >= Len(x0) THEN Solve(sys)
    ELSE IF Len(sys) = 1 THEN OrthoProj1(x0, sys)
    ELSE OrthoProj2(x0, sys)

(***************************************************************************)
(* mesh.Nearest                                                             *)
(***************************************************************************)
\* A handler that also moves the candidate back to the reference point.
NearestOnFailMoves(st) ==
    [st EXCEPT !.failcount = st.failcount + 1,
               !.from = st.from,
               !.proj = st.from,
               !.bad = <<>>,
               !.pc = IF st.failcount + 1 = 2 THEN "done" ELSE "loop",
               !.success = FALSE]

\* A handler that gives up at the first failure.
NearestOnFailOneStrike(st) ==
    [st EXCEPT !.failcount = st.failcount + 1,
               !.from = st.proj,
               !.bad = <<>>,
               !.pc = "done",
               !.success = FALSE]

\* After `OrthoProj` returned an error: `failcount++; from = proj; badA,
\* badb = nil, nil; if failcount == 2 { return proj, false }`.
NearestOnFail(st) ==
    [st EXCEPT !.failcount = st.failcount + 1,
               !.from = st.proj,
               !.bad = <<>>,
               !.pc = IF st.failcount + 1 = 2 THEN "done" ELSE "loop",
               !.success = FALSE]

\* After `OrthoProj` returned a point: `proj = newproj`.
NearestOnOk(st, newproj) == [st EXCEPT !.proj = newproj]

\* The working set after the violated row w is stacked under it.
NearestStack(bad, sys, w) == Append(bad, sys[w])

\* One iteration of Nearest's loop.  The fields ortho, lastGood and outcomes
\* record the calls of OrthoProj: how many, the last point one returned,
\* and the outcome of each.
NearestStep(st) ==
    LET w == mostviolated(st.proj, st.sys)
    IN  IF w = 0
        THEN [st EXCEPT !.i = st.i + 1, !.pc = "done", !.success = TRUE]
        ELSE LET bad  == NearestStack(st.bad, st.sys, w)
                 r    == OrthoProj(st.from, bad)
                 here == [st EXCEPT !.i = st.i + 1, !.bad = bad,
                                    !.ortho = st.ortho + 1,
                                    !.outcomes = Append(st.outcomes,
                                                        IF r.err THEN "fail" ELSE "ok"),
                                    !.lastGood = IF r.err THEN st.lastGood ELSE r.proj]
             IN  IF r.err THEN NearestOnFail(here) ELSE NearestOnOk(here, r.proj)

\* Nearest(x0, A, b) is entered: `from := x0; proj = x0; i := 0; failcount := 0`.
NearestEnter(x0, sys, chained) ==
    [pc |-> "loop", x0 |-> x0, sys |-> sys, from |-> x0, proj |-> x0, bad |-> <<>>,
     i |-> 0, failcount |-> 0, success |-> FALSE,
     ortho |-> 0, lastGood |-> x0, outcomes |-> <<>>, chained |-> chained]

\* No call of Nearest is in progress.
NearIdle == near = [pc |-> "idle"]

\* The longest run of the loop that is followed.
MaxIter == 9
\* The most rows a system A x <= b has.
MaxSysRows == 3

\* The rows the systems are built from: x <= 1, y <= 1, -x <= -2, 2x <= 0
\* and the row 0 <= -1 that no point satisfies.
Cons ==
    { [a |-> <<RatInt(1), RatInt(0)>>,  b |-> RatInt(1)],
      [a |-> <<RatInt(0), RatInt(1)>>,  b |-> RatInt(1)],
      [a |-> <<RatInt(-1), RatInt(0)>>, b |-> RatInt(-2)],
      [a |-> <<RatInt(2), RatInt(0)>>,  b |-> RatInt(0)],
      [a |-> <<RatInt(0), RatInt(0)>>,  b |-> RatInt(-1)] }

Systems == SeqsUpTo(Cons, MaxSysRows) \ { <<>> }

\* The starting points; the last two lie beyond x <= 1 by less and by more
\* than eps.
StartPoints ==
    { <<RatInt(2), RatInt(2)>>, <<RatInt(0), RatInt(0)>>, <<RatInt(2), RatInt(4)>>,
      <<Rat(2 * EpsDen + 1, 2 * EpsDen), RatInt(1)>>,
      <<Rat(EpsDen + 2, EpsDen), RatInt(1)>> }

\* Rows of three columns: x <= 1, y <= 1, 3x + 4y <= 6, which lies in the
\* span of the first two, and z <= 1.
Cons3 ==
    { [a |-> <<RatInt(1), RatInt(0), RatInt(0)>>, b |-> RatInt(1)],
      [a |-> <<RatInt(0), RatInt(1), RatInt(0)>>, b |-> RatInt(1)],
      [a |-> <<RatInt(3), RatInt(4), RatInt(0)>>, b |-> RatInt(6)],
      [a |-> <<RatInt(0), RatInt(0), RatInt(1)>>, b |-> RatInt(1)] }

\* The empty polyhedron x <= 1, y <= 1, z <= 1, x >= 2, whose first three
\* rows are independent.
Empty3 ==
    << [a |-> <<RatInt(1), RatInt(0), RatInt(0)>>,  b |-> RatInt(1)],
       [a |-> <<RatInt(0), RatInt(1), RatInt(0)>>,  b |-> RatInt(1)],
       [a |-> <<RatInt(0), RatInt(0), RatInt(1)>>,  b |-> RatInt(1)],
       [a |-> <<RatInt(-1), RatInt(0), RatInt(0)>>, b |-> RatInt(-2)] >>

Systems3 == (SeqsUpTo(Cons3, MaxSysRows) \ { <<>> }) \cup { Empty3 }

StartPoints3 ==
    { <<RatInt(6), RatInt(3), RatInt(0)>>, <<RatInt(6), RatInt(3), RatInt(3)>>,
      <<RatInt(0), RatInt(0), RatInt(0)>> }

\* One iteration of the loop of Nearest.
NearestIter ==
    /\ near.pc = "loop"
    /\ near.i < MaxIter
    /\ near' = NearestStep(near)
    /\ UNCHANGED <<obj, serialVars, cacheVars, parVars, penVars>>

\* A caller hands the point a successful call returned to Nearest again,
\* with the same system.
NearestAgain ==
    /\ near.pc = "done"
    /\ near.success
    /\ ~near.chained
    /\ near' = NearestEnter(near.proj, near.sys, TRUE)
    /\ UNCHANGED <<obj, serialVars, cacheVars, parVars, penVars>>

(***************************************************************************)
(* ObjectivePenalty.  The numbers are rationals; the inner objective is any *)
(* Objectiver, so the value and error it returns are inputs of the call.    *)
(***************************************************************************)
\* `neglow.Scale(-1, o.Low)` and `o.b.Stack(o.Up, neglow)`
PenStackB(o) == o.Up \o [i \in 1..Len(o.Low) |-> RatNeg(o.Low[i])]

\* `negA.Scale(-1, o.A)` and `o.a.Stack(o.A, negA)`
PenStackA(o) ==
    o.A \o [i \in 1..Len(o.A) |-> [j \in 1..Len(o.A[i]) |-> RatNeg(o.A[i][j])]]

\* `o.ranges[i] = o.Up.At(i, 0) - o.Low.At(i, 0)` for the rows of A, then
\* `o.ranges = append(o.ranges, o.ranges...)`.
PenRanges(o) ==
    LET r == [i \in 1..Len(o.A) |-> RatSub(o.Up[i], o.Low[i])]
    IN  r \o r

\* init(): builds a, b and ranges unless `o.a != nil`.
PenInit(o) ==
    IF o.inited THEN o
    ELSE [o EXCEPT !.inited = TRUE,
                   !.a = PenStackA(o),
                   !.b = PenStackB(o),
                   !.ranges = PenRanges(o)]

\* `ax.At(i, 0) - o.b.At(i, 0)` for the stacked row i.
PenDiff(o, v, i) == RatSub(Dot(o.a[i], v, 1), o.b[i])

\* `diff / o.ranges[i] * o.Weight`
PenTerm(o, diff, i) == RatMul(RatDivPos(diff, o.ranges[i]), o.Weight)

RECURSIVE PenLoop(_, _, _, _)
\* `for i := 0; i < m; i++ { if diff := ...; diff > 0 { penalty += ... } }`
PenLoop(o, v, i, penalty) ==
    IF i > Len(o.a) THEN penalty
    ELSE LET diff == PenDiff(o, v, i)
         IN  IF RatGt(diff, RatInt(0))
             THEN PenLoop(o, v, i + 1, RatAdd(penalty, PenTerm(o, diff, i)))
             ELSE PenLoop(o, v, i + 1, penalty)

\* The value Objective returns at v when the inner objective returned val:
\* val itself if Weight is zero, else `val * (1 + penalty)`.
PenValue(o, v, val) ==
    IF o.Weight = RatInt(0) THEN val
    ELSE RatMul(val, RatAdd(RatInt(1), PenLoop(o, v, 1, RatInt(0))))

NoPenCall == [v |-> <<>>, val |-> RatInt(0), e |-> Nil, out |-> RatInt(0)]

\* ObjectivePenalty.Objective(v), the inner objective returning val and e:
\* the decorator after the call, with the call and the one before it kept.
PenObjective(o, v, val, e) ==
    LET oi == PenInit(o)
    IN  [oi EXCEPT !.prev = o.last,
                   !.last = [v |-> v, val |-> val, e |-> e, out |-> PenValue(oi, v, val)],
                   !.calls = IF o.calls < 2 THEN o.calls + 1 ELSE 2]

\* An ObjectivePenalty literal: a, b and ranges unset.
PenNew(A, Low, Up, Weight) ==
    [A |-> A, Low |-> Low, Up |-> Up, Weight |-> Weight,
     inited |-> FALSE, a |-> <<>>, b |-> <<>>, ranges |-> <<>>,
     prev |-> NoPenCall, last |-> NoPenCall, calls |-> 0]

\* No ObjectivePenalty has been built.
PenIdle == pen = [calls |-> 0]

\* The two-sided systems low <= A x <= up of the decorators: one row, two
\* rows with different ranges, and a row that involves both coordinates.
PenSystems ==
    { [A |-> << <<RatInt(1), RatInt(0)>> >>, Low |-> <<RatInt(0)>>, Up |-> <<RatInt(1)>>],
      [A |-> << <<RatInt(1), RatInt(0)>>, <<RatInt(0), RatInt(1)>> >>,
       Low |-> <<RatInt(0), RatInt(0)>>, Up |-> <<RatInt(2), RatInt(1)>>],
      [A |-> << <<RatInt(1), RatInt(1)>> >>, Low |-> <<RatInt(1)>>, Up |-> <<RatInt(3)>>] }

PenWeights == { RatInt(0), RatInt(1), Rat(1, 2) }

\* The points handed to Objective and the values the inner objective gives.
PenPoints == { <<RatInt(x), RatInt(y)>> : x \in {-1, 1, 2, 3}, y \in {0, 2} }

PenVals == { RatInt(-1), RatInt(0), RatInt(2) }

PenErrs == { Nil, ErrAt(<<>>) }

PenCall ==
    /\ \E v \in PenPoints, val \in PenVals, e \in PenErrs :
          pen' = PenObjective(pen, v, val, e)
    /\ UNCHANGED <<obj, serialVars, cacheVars, parVars, nearVars>>

(***************************************************************************)
(* Specifications                                                           *)
(***************************************************************************)
vars == <<obj, serialVars, cacheVars, parVars, nearVars, penVars>>

InitSerial ==
    /\ obj \in Objectives
    /\ ContinueOnErr \in BOOLEAN
    /\ sPoints \in Batches
    /\ spc = "ready"
    /\ sOut = NoOut
    /\ CacheIdle
    /\ ParIdle
    /\ NearIdle
    /\ PenIdle

NextSerial == SerialCall

SpecSerial == InitSerial /\ [][NextSerial]_vars

InitCache ==
    /\ obj \in Objectives
    /\ ContinueOnErr \in BOOLEAN
    /\ SerialIdle
    /\ cache = <<>>
    /\ cpc = "ready"
    /\ cCall = NoCall
    /\ cPrev = NoPrev
    /\ seen = {}
    /\ evald = {}
    /\ ParIdle
    /\ NearIdle
    /\ PenIdle

NextCache == CacheCall

SpecCache == InitCache /\ [][NextCache]_vars

\* A CacheEvaler that wraps any Evaler.
InitCacheAny ==
    /\ InitCache
    /\ ContinueOnErr = FALSE
    /\ obj.fails = {}

NextCacheAny == CacheCallAny

SpecCacheAny == InitCacheAny /\ [][NextCacheAny]_vars

\* ParallelEvaler.Eval is entered: results, wg.Add(len(points)) and ch are set up.
InitParallel ==
    /\ obj \in ParObjectives
    /\ ContinueOnErr = FALSE
    /\ SerialIdle
    /\ CacheIdle
    /\ NearIdle
    /\ PenIdle
    /\ pPoints \in ParBatches
    /\ mainpc = "loop"
    /\ li = 0
    /\ loopP = NewPoint(<<>>, 0)
    /\ tasks = [t \in 1..Len(pPoints) |-> NoTask]
    /\ ch = <<>>
    /\ results = <<>>
    /\ err = Nil
    /\ wg = Len(pPoints)
    /\ pOut = NoOut

TaskStep(t) == TaskCopy(t) \/ TaskEval(t) \/ TaskSend(t) \/ TaskDone(t)

NextParallel ==
    \/ ParSpawn
    \/ ParLoopEnd
    \/ ParCollect
    \/ \E t \in 1..Len(pPoints) : TaskCopy(t)
    \/ \E t \in 1..Len(pPoints) : TaskEval(t)
    \/ \E t \in 1..Len(pPoints) : TaskSend(t)
    \/ \E t \in 1..Len(pPoints) : TaskDone(t)

SpecParallel == InitParallel /\ [][NextParallel]_vars

InitNearest ==
    /\ obj \in { o \in Objectives : o.fails = {} /\ o.val[<<PosZero, One>>] = 0 }
    /\ ContinueOnErr = FALSE
    /\ SerialIdle
    /\ CacheIdle
    /\ ParIdle
    /\ PenIdle
    /\ \/ \E x0 \in StartPoints, sys \in Systems : near = NearestEnter(x0, sys, FALSE)
       \/ \E x0 \in StartPoints3, sys \in Systems3 : near = NearestEnter(x0, sys, FALSE)

NextNearest == NearestIter \/ NearestAgain

SpecNearest == InitNearest /\ [][NextNearest]_vars

(***************************************************************************)
(* SpecPenalty: one ObjectivePenalty and the calls of its Objective         *)
(***************************************************************************)
InitPenalty ==
    /\ obj \in { o \in Objectives : o.fails = {} /\ o.val[<<PosZero, One>>] = 0 }
    /\ ContinueOnErr = FALSE
    /\ SerialIdle
    /\ CacheIdle
    /\ ParIdle
    /\ NearIdle
    /\ \E sys \in PenSystems, w \in PenWeights :
          pen = PenNew(sys.A, sys.Low, sys.Up, w)

NextPenalty == PenCall

SpecPenalty == InitPenalty /\ [][NextPenalty]_vars

(***************************************************************************)
(* Claims about SerialEvaler.Eval (checked under SpecSerial)                *)
(***************************************************************************)
\* The indices of the points of a batch at which the objective fails.
FailingAt(o, points) == { i \in 1..Len(points) : Pos(points[i]) \in o.fails }

FirstFailing(o, points) ==
    CHOOSE k \in FailingAt(o, points) : \A i \in FailingAt(o, points) : k <= i

\* C2: with ContinueOnErr = true every point of the batch is evaluated, the
\* results hold all of them, and the returned error is non-nil exactly when
\* at least one per-point evaluation returned an error.
C2_ContinueReportsFailure ==
    (spc = "returned" /\ ContinueOnErr) =>
        /\ sOut.calls = [i \in 1..Len(sPoints) |-> Pos(sPoints[i])]
        /\ Len(sOut.results) = Len(sPoints)
        /\ (sOut.err # Nil) <=> (FailingAt(obj, sPoints) # {})

\* C3: with ContinueOnErr = false and the first failing point at index k
\* (1-based here, so k-1 in the caller's 0-based count), exactly the points
\* 1..k are passed to the objective, the results are those k points in input
\* order with the objective's values, the count is k and the error is the
\* error of point k.
C3_SerialTruncation ==
    (spc = "returned" /\ ~ContinueOnErr /\ FailingAt(obj, sPoints) # {}) =>
        LET k == FirstFailing(obj, sPoints)
        IN  /\ sOut.calls = [i \in 1..k |-> Pos(sPoints[i])]
            /\ sOut.results =
                   [i \in 1..k |-> NewPoint(Pos(sPoints[i]), obj.val[Pos(sPoints[i])])]
            /\ sOut.n = k
            /\ sOut.err = ErrAt(Pos(sPoints[k]))

\* C3's case: the first failure is neither the first nor the last point.
C3_Witness ==
    /\ spc = "returned" /\ ~ContinueOnErr
    /\ FailingAt(obj, sPoints) # {}
    /\ FirstFailing(obj, sPoints) > 1
    /\ FirstFailing(obj, sPoints) < Len(sPoints)
    /\ Len(sOut.results) = FirstFailing(obj, sPoints)

(***************************************************************************)
(* Claims about CacheEvaler.Eval (checked under SpecCache)                  *)
(***************************************************************************)
\* Whether point p was in the cache when the last call began.
WasCached(p) == hashPoint(p) \in DOMAIN cPrev.cache

\* The indices of the last batch that were not in the cache when the call
\* began, and the rank of such an index among them.
MissIdx == { i \in 1..Len(cCall.points) : ~WasCached(cCall.points[i]) }
MissRank(i) == Cardinality({ j \in MissIdx : j <= i })

\* C4: every returned point whose coordinates were in the cache when the
\* batch started carries the value the cache recorded for them.
C4_HitYieldsRecorded ==
    cpc = "returned" =>
        \A i \in 1..Len(cCall.results) :
            WasCached(cCall.results[i]) =>
                cCall.results[i].Val = cPrev.cache[hashPoint(cCall.results[i])]

\* C5: no batch forwards to the inner evaluator a point whose coordinates
\* the inner evaluator returned in an earlier batch, and the objective is not
\* invoked on coordinates it was invoked on in an earlier batch.
C5_NeverReevaluates ==
    cpc = "returned" =>
        /\ \A j \in 1..Len(cCall.newp) : Pos(cCall.newp[j]) \notin cPrev.seen
        /\ Range(cCall.calls) \cap cPrev.evald = {}

\* C5's case: a batch holding coordinates returned earlier next to new ones.
C5_Witness ==
    /\ cpc = "returned"
    /\ \E i \in 1..Len(cCall.points) : Pos(cCall.points[i]) \in cPrev.seen
    /\ Len(cCall.calls) > 0

\* C6 as stated: the count equals the number of distinct coordinate vectors
\* of the batch that were not cached and were evaluated.
C6_CountDistinct ==
    cpc = "returned" =>
        cCall.n = Cardinality({ v \in PosOf(cCall.points) :
                                  /\ v \in Range(cCall.calls)
                                  /\ \E i \in MissIdx : Pos(cCall.points[i]) = v })

\* C6 as amended: the count equals the number of points of the batch, each
\* occurrence counted, that were not cached and were evaluated: the objective
\* is invoked n times, the j-th time on the j-th miss of the batch.
C6_CountEvaluations ==
    cpc = "returned" =>
        /\ cCall.n = Len(cCall.calls)
        /\ cCall.n <= Cardinality(MissIdx)
        /\ \A i \in MissIdx :
              MissRank(i) <= cCall.n => cCall.calls[MissRank(i)] = Pos(cCall.points[i])

\* C6's case: a batch with a hit and the same uncached coordinates twice,
\* both occurrences evaluated.
C6_Witness ==
    /\ cpc = "returned"
    /\ \E i \in 1..Len(cCall.points) : WasCached(cCall.points[i])
    /\ \E i, j \in MissIdx :
          /\ i < j
          /\ Pos(cCall.points[i]) = Pos(cCall.points[j])
          /\ MissRank(j) <= cCall.n

\* C7: when the inner evaluator returns r results, 1 <= r < the number of
\* misses, Eval returns the prefix of the input that ends at the r-th miss;
\* every miss in it was returned by the inner evaluator and carries the
\* value the objective computed.
C7_TruncationOnPartialFailure ==
    LET r == Len(cCall.newresults)
    IN  (cpc = "returned" /\ 1 <= r /\ r < Cardinality(MissIdx)) =>
            LET cut == CHOOSE i \in MissIdx : MissRank(i) = r
            IN  /\ Len(cCall.results) = cut
                /\ \A i \in 1..cut :
                      /\ Pos(cCall.results[i]) = Pos(cCall.points[i])
                      /\ i \in MissIdx =>
                            /\ MissRank(i) <= r
                            /\ cCall.results[i].Val = cCall.newresults[MissRank(i)].Val
                            /\ cCall.results[i].Val = obj.val[Pos(cCall.points[i])]

\* C7's case: the inner evaluator stopped early, a hit lies inside the
\* returned prefix and a miss lies beyond it.
C7_Witness ==
    /\ cpc = "returned"
    /\ 1 <= Len(cCall.newresults)
    /\ Len(cCall.newresults) < Cardinality(MissIdx)
    /\ \E i \in 1..Len(cCall.results) : WasCached(cCall.points[i])
    /\ Len(cCall.results) < Len(cCall.points)

(***************************************************************************)
(* Claims about ParallelEvaler.Eval (checked under SpecParallel)            *)
(***************************************************************************)
\* The goroutines that have sent their report on the channel.
Reported == { t \in 1..Len(pPoints) : tasks[t].pc \in {"sent", "done"} }

\* The goroutines that have called the objective.
Evaluated == { t \in 1..Len(pPoints) : tasks[t].pc \in {"evald", "sent", "done"} }

\* Every goroutine has reported and the collecting loop has taken every report.
AllCollected ==
    /\ mainpc # "loop"
    /\ Reported = 1..Len(pPoints)
    /\ ch = <<>>

\* The number of indices of sequence s whose position is v.
CountPos(s, v) == Cardinality({ i \in 1..Len(s) : Pos(s[i]) = v })

\* C1: once all spawned tasks have sent their result and the collecting loop
\* has taken them, Eval goes on to return: the main goroutine is not left
\* blocked on the result channel with nothing in the system able to move.
C1_EvalReturns ==
    AllCollected => (mainpc = "returned" \/ ENABLED NextParallel)

\* C8: the result sequence built from the task reports has one entry per
\* report, failed or not: once the N reports are collected it has length N
\* and the count the return statement computes from it is N.
C8_ParallelCompleteness ==
    /\ Len(results) + Len(ch) = Cardinality(Reported)
    /\ AllCollected =>
          /\ Len(results) = Len(pPoints)
          /\ ParCount(results) = Len(pPoints)
    /\ mainpc = "returned" =>
          /\ Len(pOut.results) = Len(pPoints)
          /\ pOut.n = Len(pPoints)

\* C8's case: all reports of a batch of at least two points are collected
\* and at least one of them is a failure.
C8_Witness ==
    /\ AllCollected
    /\ Len(pPoints) >= 2
    /\ \E t \in 1..Len(pPoints) : tasks[t].perr.Err # Nil
    /\ Len(results) = Len(pPoints)

\* C9: task t evaluates the objective at the coordinates of input point t
\* and reports that point, so the collected results hold the coordinate
\* vectors of the input batch, each as often as the batch does.
C9_EveryInputEvaluated ==
    /\ \A t \in Evaluated :
          /\ tasks[t].arg = Pos(pPoints[t])
          /\ Pos(tasks[t].perr.Point) = Pos(pPoints[t])
    /\ AllCollected =>
          \A v \in PosOf(pPoints) : CountPos(results, v) = CountPos(pPoints, v)

\* C10: once all reports are collected the error is non-nil exactly when
\* some task's objective call returned an error, whatever the order of the
\* reports; and no goroutine waits for another: a started goroutine can
\* always take its next step and a buffered report can always be collected
\* once the spawning loop is over.
C10_AggregateFailure ==
    /\ AllCollected =>
          ((err # Nil) <=> (\E t \in 1..Len(pPoints) : tasks[t].perr.Err # Nil))
    /\ err # Nil => \E t \in Reported : tasks[t].perr.Err = err
    /\ \A t \in 1..Len(pPoints) :
          tasks[t].pc \in {"start", "copied", "evald", "sent"} => ENABLED TaskStep(t)
    /\ (mainpc = "range" /\ ch # <<>>) => ENABLED ParCollect

\* C10's case: a failed report was collected before a successful one.
C10_Witness ==
    /\ AllCollected
    /\ Len(results) >= 2
    /\ \E t \in 1..Len(pPoints) : tasks[t].perr.Err # Nil
    /\ Pos(results[Len(results)]) \notin obj.fails
    /\ tasks[1].perr.Err # Nil
    /\ err # Nil

(***************************************************************************)
(* Claims about mesh.Nearest and mostviolated (checked under SpecNearest)   *)
(***************************************************************************)
\* A_i . x - b_i for row i of the system of the call.
RowDiff(x, i) == RatSub(Dot(near.sys[i].a, x, 1), near.sys[i].b)

\* The rows that x violates by more than eps.
ViolatedRows(x) == { i \in 1..Len(near.sys) : RatGt(RowDiff(x, i), Eps) }

\* The orthogonal distance of x to the hyperplane of a row it violates.
RowDist(x, i) == RatDivPos(RowDiff(x, i), l2norm(near.sys[i].a))

LastOutcome == near.outcomes[Len(near.outcomes)]

Failures == { k \in 1..Len(near.outcomes) : near.outcomes[k] = "fail" }

NearFailed == near.pc = "done" /\ ~near.success

\* C11: a call of Nearest reaches one of its exits after finitely many
\* iterations, the working set not growing for ever.  A loop in which a row
\* of A enters the working set at most once between two failures, and which
\* the second failure ends, makes at most 2m + 1 iterations on a system of m
\* rows: stated with that budget.
C11_NearestExits ==
    near.i > 2 * Len(near.sys) + 1 => near.pc = "done"

\* C12 as stated: success=false is returned only when the last two
\* projections both failed; a failure that follows a successful projection
\* does not end the call.
C12_ConsecutiveStrikes ==
    /\ NearFailed =>
          /\ Len(near.outcomes) >= 2
          /\ near.outcomes[Len(near.outcomes) - 1] = "fail"
          /\ LastOutcome = "fail"
    /\ (/\ Len(near.outcomes) >= 2
        /\ LastOutcome = "fail"
        /\ near.outcomes[Len(near.outcomes) - 1] = "ok") => near.pc = "loop"

\* C12 as amended: success=false is returned exactly when the second
\* projection of the call has failed, whether or not successful projections
\* lie between the two failures; the first failure resets the reference
\* point to the candidate, clears the working set and lets the loop go on.
C12_TwoStrikes ==
    /\ near.failcount = Cardinality(Failures)
    /\ NearFailed <=> (near.pc # "idle" /\ Cardinality(Failures) = 2)
    /\ NearFailed => LastOutcome = "fail"
    /\ (Cardinality(Failures) = 1 /\ LastOutcome = "fail") =>
          /\ near.pc = "loop"
          /\ near.from = near.proj
          /\ near.bad = <<>>

\* C12's case: the call ended on a failure that followed a successful
\* projection made after the first failure.
C12_Witness ==
    /\ NearFailed
    /\ Len(near.outcomes) >= 3
    /\ near.outcomes[Len(near.outcomes) - 1] = "ok"
    /\ \E k \in Failures : k < Len(near.outcomes) - 1

\* C13: whenever Nearest returns success=true the returned point violates no
\* row of A x <= b by more than eps.
C13_FeasibleWhenTrue ==
    (near.pc = "done" /\ near.success) =>
        \A i \in 1..Len(near.sys) : ~RatGt(RowDiff(near.proj, i), Eps)

\* C13's case: success after a first-strike reset.  Two projections
\* succeeded, the third failed on a working set of dependent rows, and a
\* projection from the reset reference point onto the restarted working set
\* reached the polyhedron.
C13_Witness ==
    /\ near.pc = "done" /\ near.success
    /\ near.failcount = 1
    /\ Len(near.outcomes) >= 4
    /\ near.outcomes[3] = "fail"
    /\ LastOutcome = "ok"
    /\ near.from # near.x0
    /\ near.proj # near.from

\* C14: if x0 violates no row by more than eps, Nearest returns x0 itself
\* with success=true on its first iteration without calling OrthoProj; and
\* Nearest applied to the point a successful call returned returns that
\* point unchanged.
C14_Idempotent ==
    /\ (near.pc = "done" /\ ViolatedRows(near.x0) = {}) =>
          /\ near.proj = near.x0
          /\ near.success
          /\ near.i = 1
          /\ near.ortho = 0
    /\ (near.pc = "done" /\ near.chained) =>
          /\ near.proj = near.x0
          /\ near.success
          /\ near.ortho = 0

\* C14's case: the second call on a point that the first call had to
\* project, and which lies on the boundary of the polyhedron.
C14_Witness ==
    /\ near.pc = "done" /\ near.chained
    /\ near.x0 \notin StartPoints
    /\ near.proj = near.x0

\* C19: a failed OrthoProj call leaves the current candidate as it was, and
\* when Nearest returns success=false the returned point is the result of
\* the most recent successful projection of the call, or x0 if none
\* succeeded.
C19_FailureKeepsCandidate ==
    [][ /\ (near'.pc # "idle" /\ near'.ortho = near.ortho + 1
              /\ near'.outcomes[Len(near'.outcomes)] = "fail")
           => near'.proj = near.proj
        /\ (near'.pc = "done" /\ ~near'.success)
           => /\ near'.proj = near'.lastGood
              /\ (\A k \in 1..Len(near'.outcomes) : near'.outcomes[k] = "fail")
                    => near'.proj = near'.x0 ]_vars

\* C19's case: the call failed after a successful projection had moved the
\* candidate away from x0 and from the reference point.
C19_Witness ==
    /\ NearFailed
    /\ near.proj # near.x0
    /\ near.proj = near.lastGood
    /\ \E k \in 1..Len(near.outcomes) : near.outcomes[k] = "ok"

\* C20: mostviolated returns no row exactly when no row is violated by more
\* than eps; otherwise the row it returns is violated by more than eps and
\* its orthogonal distance is at least that of every other such row.
C20_MostViolated ==
    near.pc # "idle" =>
        LET w == mostviolated(near.proj, near.sys)
        IN  /\ (w = 0) <=> (ViolatedRows(near.proj) = {})
            /\ w # 0 =>
                  /\ w \in ViolatedRows(near.proj)
                  /\ \A j \in ViolatedRows(near.proj) :
                        ~RatGt(RowDist(near.proj, j), RowDist(near.proj, w))
            /\ (near.pc = "loop" /\ near.bad # <<>>) =>
                  \E i \in 1..Len(near.sys) : near.bad[Len(near.bad)] = near.sys[i]

\* C20's case: the row with the largest raw violation is not the row with
\* the largest orthogonal distance.
C20_Witness ==
    /\ near.pc = "loop"
    /\ LET w == mostviolated(near.proj, near.sys)
       IN  /\ w # 0
           /\ \E j \in ViolatedRows(near.proj) :
                 /\ RatGt(RowDiff(near.proj, j), RowDiff(near.proj, w))
                 /\ RatGt(RowDist(near.proj, w), RowDist(near.proj, j))

(***************************************************************************)
(* Claims about ObjectivePenalty.Objective (checked under SpecPenalty)      *)
(***************************************************************************)
\* The amount by which v violates the stacked row i, 0 if it does not.
PenViolation(v, i) ==
    LET diff == PenDiff(pen, v, i)
    IN  IF RatGt(diff, RatInt(0)) THEN diff ELSE RatInt(0)

\* The last call violates exactly one stacked row by more than the call
\* before it did, the other rows by the same amount, and the inner
\* objective returned the same value in both.
PenOneRowWorse ==
    /\ pen.calls = 2
    /\ pen.last.val = pen.prev.val
    /\ \E i \in 1..Len(pen.a) :
          /\ RatGt(PenViolation(pen.last.v, i), PenViolation(pen.prev.v, i))
          /\ \A j \in 1..Len(pen.a) \ {i} :
                PenViolation(pen.last.v, j) = PenViolation(pen.prev.v, j)

\* C15: with Weight > 0 and the inner value and the other rows held fixed,
\* a larger violation of one stacked row never gives a smaller returned
\* value, whatever the sign of the inner value.
C15_PenaltyMonotone ==
    (RatGt(pen.Weight, RatInt(0)) /\ PenOneRowWorse) =>
        ~RatGt(pen.prev.out, pen.last.out)

(***************************************************************************)
(* Further claims about CacheEvaler.Eval                                    *)
(***************************************************************************)
\* C16 (checked under SpecCacheAny): when the batch has a miss and the inner
\* evaluator returns no result and a failure, Eval returns normally, with
\* the points it was given, unmodified, and the failure, and the cache is
\* as it was.
C16_ZeroResultsNoFault ==
    (/\ cpc # "ready"
     /\ Len(cCall.fromnew) > 0
     /\ Len(cCall.newresults) = 0) =>
        /\ cpc = "returned"
        /\ cCall.results = cCall.points
        /\ cCall.err # Nil
        /\ cache = cPrev.cache

\* C17 (checked under SpecCache): when the inner evaluator returns a result
\* for every miss, Eval returns as many points as it was given, with the
\* same coordinates at the same positions; hits that follow the last miss
\* are among them.
C17_NoTruncationWithoutFailure ==
    (/\ cpc = "returned"
     /\ Len(cCall.newresults) = Len(cCall.fromnew)) =>
        /\ Len(cCall.results) = Len(cCall.points)
        /\ \A i \in 1..Len(cCall.points) :
              Pos(cCall.results[i]) = Pos(cCall.points[i])

\* Every goroutine read its own point on both of its reads of p.
RaceFree ==
    \A t \in Evaluated :
        /\ tasks[t].arg = Pos(pPoints[t])
        /\ Pos(tasks[t].perr.Point) = Pos(pPoints[t])

\* C18 (checked under SpecParallel): when a CacheEvaler with an empty cache
\* wraps ParallelEvaler, each miss of the returned sequence carries the
\* value the objective produced for that point's own coordinates, and the
\* cache records that value under the point's fingerprint, whatever the
\* order the reports arrived in.  Stated on what CacheEvaler.Eval computes
\* from the results the collecting loop has built.
C18_BackfillMatchesCoordinates ==
    (AllCollected /\ RaceFree) =>
        LET scan == CacheScan(<<>>, pPoints, 1, <<>>)
            fin  == CacheFinish(<<>>, scan,
                                [results |-> results, n |-> ParCount(results), err |-> err])
        IN  /\ ~fin.panicked
            /\ \A k \in 1..Len(fin.results) :
                  /\ fin.results[k].Val = obj.val[Pos(fin.results[k])]
                  /\ fin.cache[hashPoint(fin.results[k])] = obj.val[Pos(fin.results[k])]
====
